---- MODULE Spec2Model ----
(***************************************************************************)
(* The multi-agent analysis pipeline of src/main.py, the retry loop of     *)
(* src/Utils/Agents.py (Agent.run) and the upload handler of src/app.py.   *)
(*                                                                         *)
(* Texts (model output, file contents, file names, error markers) are TLA+ *)
(* strings; Python's string operations are operators over them, so that    *)
(* looks_like_error, the file-name derivations and the artifact headers    *)
(* are computed the way the code computes them.                            *)
(***************************************************************************)
EXTENDS Integers, Sequences, FiniteSets, TLC

(***************************************************************************)
(* Bounds of the model.                                                    *)
(***************************************************************************)
\* number of pipeline invocations (uploads) in one behaviour
MaxRuns == 2
\* number of model-service invocations (an Agent.run with its retries, or a
\* derived-view call), over one behaviour, that meet a fault or get an
\* unusable text
MaxFaults == 1

(***************************************************************************)
(* Python string operations.                                               *)
(***************************************************************************)
\* one character of str.lower()
LowerChar(c) ==
    CASE c = "A" -> "a" [] c = "B" -> "b" [] c = "C" -> "c" [] c = "D" -> "d"
      [] c = "E" -> "e" [] c = "F" -> "f" [] c = "G" -> "g" [] c = "H" -> "h"
      [] c = "I" -> "i" [] c = "J" -> "j" [] c = "K" -> "k" [] c = "L" -> "l"
      [] c = "M" -> "m" [] c = "N" -> "n" [] c = "O" -> "o" [] c = "P" -> "p"
      [] c = "Q" -> "q" [] c = "R" -> "r" [] c = "S" -> "s" [] c = "T" -> "t"
      [] c = "U" -> "u" [] c = "V" -> "v" [] c = "W" -> "w" [] c = "X" -> "x"
      [] c = "Y" -> "y" [] c = "Z" -> "z" [] OTHER -> c

\* str.lower(): character by character (the two halves of the string in
\* turn, which keeps the recursion shallow)
RECURSIVE Lower(_)
Lower(s) ==
    IF Len(s) = 0 THEN ""
    ELSE IF Len(s) = 1 THEN LowerChar(s)
    ELSE LET h == Len(s) \div 2
         IN  Lower(SubSeq(s, 1, h)) \o Lower(SubSeq(s, h + 1, Len(s)))

\* sub in s
Contains(sub, s) ==
    \E i \in 0..(Len(s) - Len(sub)) : SubSeq(s, i + 1, i + Len(sub)) = sub

\* s.startswith(p), s.endswith(p)
StartsWith(s, p) == Len(p) <= Len(s) /\ SubSeq(s, 1, Len(p)) = p
EndsWith(s, p) == Len(p) <= Len(s) /\ SubSeq(s, Len(s) - Len(p) + 1, Len(s)) = p

\* s.replace(old, new), old non-empty: every non-overlapping occurrence,
\* scanning from the left
RECURSIVE Replace(_, _, _)
Replace(s, old, new) ==
    IF ~Contains(old, s) THEN s
    ELSE LET i == CHOOSE k \in 1..(Len(s) - Len(old) + 1) :
                    /\ SubSeq(s, k, k + Len(old) - 1) = old
                    /\ \A j \in 1..(k - 1) : SubSeq(s, j, j + Len(old) - 1) # old
         IN  SubSeq(s, 1, i - 1) \o new
                \o Replace(SubSeq(s, i + Len(old), Len(s)), old, new)

\* whitespace for str.strip()
IsSpace(c) == c \in {" ", "\n", "\t", "\r"}

\* s.lstrip(chars), s.rstrip(chars) and s.strip(chars), chars a set of
\* characters
RECURSIVE LStripChars(_, _)
LStripChars(s, chars) ==
    IF s # "" /\ Head(s) \in chars THEN LStripChars(Tail(s), chars) ELSE s
RECURSIVE RStripChars(_, _)
RStripChars(s, chars) ==
    IF s # "" /\ SubSeq(s, Len(s), Len(s)) \in chars
    THEN RStripChars(SubSeq(s, 1, Len(s) - 1), chars)
    ELSE s
StripChars(s, chars) == RStripChars(LStripChars(s, chars), chars)

\* s.strip()
Strip(s) == StripChars(s, {" ", "\n", "\t", "\r"})

\* s.split("\n")
RECURSIVE Split(_)
Split(s) ==
    IF ~Contains("\n", s) THEN <<s>>
    ELSE LET i == CHOOSE k \in 1..Len(s) :
                    /\ SubSeq(s, k, k) = "\n"
                    /\ \A j \in 1..(k - 1) : SubSeq(s, j, j) # "\n"
         IN  <<SubSeq(s, 1, i - 1)>> \o Split(SubSeq(s, i + 1, Len(s)))

\* s.splitlines(), for texts whose only line boundary is "\n"
SplitLines(s) ==
    IF s = "" THEN <<>>
    ELSE LET parts == Split(s)
         IN  IF parts[Len(parts)] = ""
             THEN SubSeq(parts, 1, Len(parts) - 1)
             ELSE parts

\* a slice that drops the first lo items and keeps all the others
SliceNoUpper(seq, lo, hi) ==
    IF lo >= Len(seq) THEN <<>> ELSE SubSeq(seq, lo + 1, Len(seq))

\* seq[lo:hi] of Python, 0-based, hi exclusive
Slice(seq, lo, hi) ==
    IF lo >= Len(seq) THEN <<>>
    ELSE SubSeq(seq, lo + 1, IF hi < Len(seq) THEN hi ELSE Len(seq))

(***************************************************************************)
(* Program constants.                                                      *)
(***************************************************************************)
RESULTS_DIR == "results"
CACHE_DIR == "cache"
MAX_RETRIES == 3
RETRY_DELAY_SECONDS == 15

\* the agent classes, by __name__; specialist_agents in the order of the list
specialist_agents == <<"Cardiologist", "Psychologist", "Pulmonologist">>
SpecialistClasses == {specialist_agents[i] : i \in 1..Len(specialist_agents)}
MDT == "MultidisciplinaryTeam"
AgentClasses == SpecialistClasses \cup {MDT}

\* agent.__name__.lower(), the key of a specialist in future_map
AgentName == [cls \in SpecialistClasses |-> Lower(cls)]

\* os.path.join(dir, name), os.path.basename(path) for a path under dir
PathJoin(dir, name) == dir \o "/" \o name
Basename(dir, path) == SubSeq(path, Len(dir) + 2, Len(path))

\* Python's None where a payload (a dict) is expected
None == [absent |-> TRUE]

(***************************************************************************)
(* Result cache (src/main.py, cache_path_for .. load_cache).  The cache    *)
(* directory is a function from the paths of the files in it to their      *)
(* payloads.                                                               *)
(***************************************************************************)
cache_path_for(filename) ==
    LET safe == Replace(Replace(Replace(Replace(filename,
                    ".txt", ""), ".pdf", ""), ".doc", ""), ".docx", "")
    IN  PathJoin(CACHE_DIR, safe \o ".json")

\* json.dump / json.load of a payload.  The JSON document keeps the keys of
\* the payload; each text is written as a JSON string literal and each list
\* as the list of the literals of its items.
JsonEscapeChar(c) ==
    CASE c = "\"" -> "\\\""
      [] c = "\\" -> "\\\\"
      [] c = "\n" -> "\\n"
      [] c = "\r" -> "\\r"
      [] c = "\t" -> "\\t"
      [] OTHER -> c

RECURSIVE JsonEscape(_)
JsonEscape(s) ==
    IF Len(s) = 0 THEN ""
    ELSE IF Len(s) = 1 THEN JsonEscapeChar(s)
    ELSE LET h == Len(s) \div 2
         IN  JsonEscape(SubSeq(s, 1, h)) \o JsonEscape(SubSeq(s, h + 1, Len(s)))

JsonUnescapeChar(c) ==
    CASE c = "n" -> "\n"
      [] c = "r" -> "\r"
      [] c = "t" -> "\t"
      [] OTHER -> c

\* the text of a literal's body: each backslash and the character after it
\* stand for one character
RECURSIVE JsonUnescape(_)
JsonUnescape(t) ==
    IF \A i \in 1..Len(t) : SubSeq(t, i, i) # "\\" THEN t
    ELSE LET i == CHOOSE k \in 1..Len(t) :
                    /\ SubSeq(t, k, k) = "\\"
                    /\ \A j \in 1..(k - 1) : SubSeq(t, j, j) # "\\"
         IN  SubSeq(t, 1, i - 1)
                \o JsonUnescapeChar(SubSeq(t, i + 1, i + 1))
                \o JsonUnescape(SubSeq(t, i + 2, Len(t)))

JsonString(s) == "\"" \o JsonEscape(s) \o "\""
ParseJsonString(lit) == JsonUnescape(SubSeq(lit, 2, Len(lit) - 1))

\* the keys of a payload whose values are lists of texts
ListFields == {"immediate_steps", "followup_steps"}

json_dump(data) ==
    [f \in DOMAIN data |->
        IF f \in ListFields
        THEN [i \in DOMAIN data[f] |-> JsonString(data[f][i])]
        ELSE JsonString(data[f])]

\* json.load that takes the body of each literal as it is
json_load_Raw(doc) ==
    [f \in DOMAIN doc |->
        IF f \in ListFields
        THEN [i \in DOMAIN doc[f] |-> SubSeq(doc[f][i], 2, Len(doc[f][i]) - 1)]
        ELSE SubSeq(doc[f], 2, Len(doc[f]) - 1)]

json_load(doc) ==
    [f \in DOMAIN doc |->
        IF f \in ListFields
        THEN [i \in DOMAIN doc[f] |-> ParseJsonString(doc[f][i])]
        ELSE ParseJsonString(doc[f])]

\* the cache maps the path of each file to the payload json.load reads
\* from the document json.dump wrote into it
save_cache(c, filename, data) ==
    LET path == cache_path_for(filename)
        stored == json_load(json_dump(data))
    IN  [p \in DOMAIN c \cup {path} |-> IF p = path THEN stored ELSE c[p]]

load_cache(c, filename) ==
    LET path == cache_path_for(filename)
    IN  IF path \notin DOMAIN c THEN None ELSE c[path]

(***************************************************************************)
(* The error-shaped check.                                                 *)
(***************************************************************************)
\* looks_like_error without the lower-casing of the text
looks_like_error_CaseSensitive(text) ==
    \/ text = ""
    \/ Contains("unable to", text)
    \/ Contains("error", text)
    \/ Contains("cannot", text)
    \/ Contains("quota", text)

looks_like_error(text) ==
    \/ text = ""
    \/ LET lower == Lower(text)
       IN  \/ Contains("unable to", lower)
           \/ Contains("error", lower)
           \/ Contains("cannot", lower)
           \/ Contains("quota", lower)

\* `cached and not looks_like_error(cached.get("patient_report", ""))`
UsableCached(cached) ==
    /\ cached # None
    /\ ~looks_like_error(cached.patient_report)

(***************************************************************************)
(* Report store.  The results directory is a function from the paths of    *)
(* the files in it to their contents.                                      *)
(***************************************************************************)
save_report(fs, file_name, content, header) ==
    LET path == PathJoin(RESULTS_DIR, file_name)
        text == (IF header # "" THEN "--- " \o header \o " ---\n\n" ELSE "")
                    \o content
    IN  [p \in DOMAIN fs \cup {path} |-> IF p = path THEN text ELSE fs[p]]

read_if_exists(fs, path) == IF path \in DOMAIN fs THEN fs[path] ELSE ""

\* the artifact names of one document
SpecialistFile(base_filename, cls) ==
    Replace(base_filename, ".txt", "") \o "_" \o AgentName[cls] \o "_report.txt"
InternalFile(base_filename) ==
    Replace(base_filename, ".txt", "") \o "_internal_mdt_report.txt"
PatientFile(base_filename) ==
    Replace(base_filename, ".txt", "") \o "_patient_summary.txt"

(***************************************************************************)
(* rebuild_cache_from_results.                                             *)
(***************************************************************************)
RebuildSuffixes ==
    << "_patient_summary.txt", "_internal_mdt_report.txt",
       "_cardiologist_report.txt", "_psychologist_report.txt",
       "_pulmonologist_report.txt" >>

\* base_from_filename: the first suffix the name ends with decides; "" stands
\* for None (no suffix matches), which `if base:` treats like the empty name
base_from_filename(path) ==
    LET name == Basename(RESULTS_DIR, path)
        hits == {i \in 1..Len(RebuildSuffixes) : EndsWith(name, RebuildSuffixes[i])}
    IN  IF hits = {} THEN ""
        ELSE LET i == CHOOSE k \in hits : \A j \in hits : k <= j
             IN  Replace(name, RebuildSuffixes[i], "")

\* the set `bases` after the glob loop (every file of the results area ends
\* in .txt)
RebuildBases(fs) ==
    {base_from_filename(p) : p \in DOMAIN fs} \ {""}

\* the dict built for one base
RebuildData(fs, base) ==
    [ final_report_path    |-> PathJoin(RESULTS_DIR, base \o "_patient_summary.txt"),
      raw_mdt_report_path  |-> PathJoin(RESULTS_DIR, base \o "_internal_mdt_report.txt"),
      raw_mdt_report       |-> read_if_exists(fs, PathJoin(RESULTS_DIR, base \o "_internal_mdt_report.txt")),
      patient_report       |-> read_if_exists(fs, PathJoin(RESULTS_DIR, base \o "_patient_summary.txt")),
      immediate_steps      |-> <<>>,
      followup_steps       |-> <<>>,
      cardiologist_report  |-> read_if_exists(fs, PathJoin(RESULTS_DIR, base \o "_cardiologist_report.txt")),
      psychologist_report  |-> read_if_exists(fs, PathJoin(RESULTS_DIR, base \o "_psychologist_report.txt")),
      pulmonologist_report |-> read_if_exists(fs, PathJoin(RESULTS_DIR, base \o "_pulmonologist_report.txt")) ]

\* the body of `for base in bases`, for the bases in the order given
RECURSIVE RebuildLoop(_, _, _)
RebuildLoop(order, fs, c) ==
    IF order = <<>> THEN c
    ELSE LET base == Head(order)
             data == RebuildData(fs, base)
             c1   == IF ~looks_like_error(data.patient_report)
                     THEN save_cache(c, base, data)
                     ELSE c
         IN  RebuildLoop(Tail(order), fs, c1)

\* `bases` is a Python set of strings: its iteration order is not fixed
\* (string hashing is randomised per process), so every order is possible
IterationOrders(S) ==
    {o \in [1..Cardinality(S) -> S] : \A i, j \in DOMAIN o : i # j => o[i] # o[j]}

\* the cache directories rebuild_cache_from_results can leave
rebuild_cache_from_results(fs, c) ==
    {RebuildLoop(o, fs, c) : o \in IterationOrders(RebuildBases(fs))}

(***************************************************************************)
(* generate_steps_split: the parse of the response text (after the call).  *)
(***************************************************************************)
\* stands for the bullet character U+2022, which a string of this module
\* cannot hold
BULLET == "@"

\* the `for line in text` loop and the return
RECURSIVE StepsLoop(_, _, _, _)
StepsLoop(text, current, immediate, followup) ==
    IF text = <<>> THEN <<Slice(immediate, 0, 3), Slice(followup, 0, 5)>>
    ELSE LET clean == Strip(Head(text))
             rest  == Tail(text)
         IN  IF clean = "" THEN StepsLoop(rest, current, immediate, followup)
             ELSE IF Contains("immediate", Lower(clean))
                  THEN StepsLoop(rest, "immediate", immediate, followup)
             ELSE IF Contains("follow", Lower(clean))
                  THEN StepsLoop(rest, "followup", immediate, followup)
             ELSE LET item == IF StartsWith(clean, "-") \/ StartsWith(clean, BULLET)
                              THEN Strip(SubSeq(clean, 2, Len(clean)))
                              ELSE clean
                  IN  IF current = "immediate"
                      THEN StepsLoop(rest, current, Append(immediate, item), followup)
                      ELSE StepsLoop(rest, current, immediate, Append(followup, item))

\* <<immediate[:3], followup[:5]>> for the text of the response
ParseSteps(response_text) ==
    StepsLoop(SplitLines(Strip(response_text)), "immediate", <<>>, <<>>)

\* [l.strip("-•* ").strip() for l in patient_summary.split("\n") if l.strip()]
RECURSIVE SummaryLinesOf(_)
SummaryLinesOf(lines) ==
    IF lines = <<>> THEN <<>>
    ELSE IF Strip(Head(lines)) = "" THEN SummaryLinesOf(Tail(lines))
    ELSE <<Strip(StripChars(Head(lines), {"-", BULLET, "*", " "}))>>
            \o SummaryLinesOf(Tail(lines))

\* the backfill without its test: the lines of the summary replace the
\* follow-up steps whatever they are
BackfillAlways(followup_steps, patient_summary) ==
    Slice(SummaryLinesOf(Split(patient_summary)), 3, 6)

\* lines 252-254: the follow-up steps of the payload
BackfillFollowup(followup_steps, patient_summary) ==
    IF followup_steps = <<>>
    THEN Slice(SummaryLinesOf(Split(patient_summary)), 3, 6)
    ELSE followup_steps

(***************************************************************************)
(* The inputs of the model: the uploaded documents and what the model      *)
(* service answers.                                                        *)
(***************************************************************************)
\* the base names of the documents that are uploaded
Docs == {"a.txt"}

\* an uploaded file: unreadable (not UTF-8, or missing), empty, or a text
DocFiles ==
    { [readable |-> FALSE, text |-> ""],
      [readable |-> TRUE,  text |-> ""],
      [readable |-> TRUE,  text |-> "Chest pain and shortness of breath."] }

\* load_medical_report: the text of the file, or None when reading it fails
NoReport == [loaded |-> FALSE, text |-> ""]
load_medical_report(file) ==
    IF file.readable THEN [loaded |-> TRUE, text |-> file.text] ELSE NoReport

\* str(n) for one digit
Digit(n) ==
    CASE n = 0 -> "0" [] n = 1 -> "1" [] n = 2 -> "2" [] n = 3 -> "3"
      [] n = 4 -> "4" [] n = 5 -> "5" [] n = 6 -> "6" [] n = 7 -> "7"
      [] n = 8 -> "8" [] OTHER -> "9"

\* the usable answers of the service; every answer names the invocation it
\* was given in, so that a text tells which run produced it
AgentText(cls, n) == cls \o " assessment " \o Digit(n)
SummaryText(n) ==
    "* Diagnosis " \o Digit(n) \o "\n* Rest\n* Drink water\n* See your doctor\n* Blood test\n- Recheck\n* Keep a diary"
StepsTexts ==
    { "Immediate Steps\n- Rest\n- Drink water\n- Take medicine\nFollow-up Steps\n- Recheck\n- Blood test\n- Review",
      "- Rest\n- Drink water\n- Take medicine\n- Recheck" }

\* the answers that are no usable text: empty, or a refusal
BadTexts == {"", "I cannot assess this."}

\* the faults generate_content raises: google.genai.errors.APIError
\* (str(e) starts with the status) or another exception
Faults ==
    { [kind |-> "APIError",  val |-> "503 UNAVAILABLE"],
      [kind |-> "APIError",  val |-> "429 RESOURCE_EXHAUSTED"],
      [kind |-> "Exception", val |-> "timed out"] }

KeyErrorMsg == "GEMINI_API_KEY is not set. Please check apikey.env and load_dotenv setup."

VARIABLES
    apiKey,              \* whether GEMINI_API_KEY is set in the environment
    results,             \* the results directory: path -> file content
    cache,               \* the cache directory: path -> payload
    runs,                \* invocations of run_multi_agent_analysis so far
    faults,              \* invocations so far that met a fault or a bad text
    pc,                  \* where the request's thread is
    base_filename,       \* run_multi_agent_analysis: base_filename
    agent,               \* the Agent objects of the run, by class name
    specialist_outputs,  \* run_multi_agent_analysis: specialist_outputs
    final_mdt_report,    \* run_multi_agent_analysis: final_mdt_report
    patient_summary,     \* run_multi_agent_analysis: patient_summary
    steps,               \* <<immediate_steps, followup_steps>>
    ret,                 \* what run_multi_agent_analysis returned or raised
    response,            \* what upload_file answered to the last request
    derived_calls,       \* generate_content calls of the derived views, this run
    written,             \* paths written in this run (results and cache)
    medical_report,      \* run_multi_agent_analysis: medical_report
    steps_text           \* generate_steps_split: response.text

vars == << apiKey, results, cache, runs, faults, pc, base_filename, agent,
           specialist_outputs, final_mdt_report, patient_summary, steps, ret,
           response, derived_calls, written, medical_report, steps_text >>

\* what one generate_content call can do: a usable text, or, within the
\* bound or in an invocation that has met a fault already (retrying), a
\* fault or an unusable text
Outcomes(good, retrying) ==
    {[kind |-> "text", val |-> t] : t \in good}
        \cup (IF retrying \/ faults < MaxFaults
              THEN {[kind |-> "text", val |-> t] : t \in BadTexts} \cup Faults
              ELSE {})
IsBad(o) == o.kind # "text" \/ o.val \in BadTexts

(***************************************************************************)
(* Agent (src/Utils/Agents.py).  log and outs are the history of the       *)
(* invocation: log holds 0 for a generate_content call and n > 0 for a     *)
(* time.sleep(n), outs how each call ended.                                *)
(***************************************************************************)
NoAgent == [pc |-> "none", attempt |-> 0, result |-> "", log |-> <<>>, outs |-> <<>>]

\* Agent.__init__
AgentConstruct(a) ==
    IF ~apiKey
    THEN [a EXCEPT !.pc = "raised", !.result = KeyErrorMsg]
    ELSE [a EXCEPT !.pc = "call"]

\* AgentAttempt with the retry test off by one (attempt < MAX_RETRIES): the
\* last failed attempt sleeps too
AgentAttemptOffByOne(a, o) ==
    LET called == [a EXCEPT !.log = Append(@, 0), !.outs = Append(@, o)]
    IN  CASE o.kind = "text" ->
                [called EXCEPT !.pc = "returned", !.result = o.val]
          [] o.kind = "APIError" ->
                IF Contains("503 UNAVAILABLE", o.val) /\ a.attempt < MAX_RETRIES
                THEN [called EXCEPT !.pc = "sleep",
                                    !.log = Append(@, RETRY_DELAY_SECONDS)]
                ELSE [called EXCEPT !.pc = "returned",
                                    !.result = "Error: " \o o.val]
          [] OTHER ->
                [called EXCEPT !.pc = "returned", !.result = "Error: " \o o.val]

\* AgentAttempt retrying every APIError, whatever its status
AgentAttemptRetryAll(a, o) ==
    LET called == [a EXCEPT !.log = Append(@, 0), !.outs = Append(@, o)]
    IN  CASE o.kind = "text" ->
                [called EXCEPT !.pc = "returned", !.result = o.val]
          [] o.kind = "APIError" ->
                IF a.attempt < MAX_RETRIES - 1
                THEN [called EXCEPT !.pc = "sleep",
                                    !.log = Append(@, RETRY_DELAY_SECONDS)]
                ELSE [called EXCEPT !.pc = "returned",
                                    !.result = "Error: " \o o.val]
          [] OTHER ->
                [called EXCEPT !.pc = "returned", !.result = "Error: " \o o.val]

\* Agent.run: one pass of the loop body, the call ending as o
AgentAttempt(a, o) ==
    LET called == [a EXCEPT !.log = Append(@, 0), !.outs = Append(@, o)]
    IN  CASE o.kind = "text" ->
                [called EXCEPT !.pc = "returned", !.result = o.val]
          [] o.kind = "APIError" ->
                IF Contains("503 UNAVAILABLE", o.val) /\ a.attempt < MAX_RETRIES - 1
                THEN [called EXCEPT !.pc = "sleep",
                                    !.log = Append(@, RETRY_DELAY_SECONDS)]
                ELSE [called EXCEPT !.pc = "returned",
                                    !.result = "Error: " \o o.val]
          [] OTHER ->
                [called EXCEPT !.pc = "returned", !.result = "Error: " \o o.val]

\* AgentContinue taking the same attempt again (a loop that does not count
\* its passes)
AgentContinueSameAttempt(a) ==
    [a EXCEPT !.pc = "call"]

\* Agent.run: time.sleep returns and `continue` takes the next attempt, or
\* leaves the loop when there is none
AgentContinue(a) ==
    IF a.attempt + 1 < MAX_RETRIES
    THEN [a EXCEPT !.pc = "call", !.attempt = @ + 1]
    ELSE [a EXCEPT !.pc = "returned",
                   !.result = "Error: Failed to generate content after all retries."]

(***************************************************************************)
(* The state after start-up: empty results and cache directories, no       *)
(* request in progress.                                                    *)
(***************************************************************************)
NoReturn == [kind |-> "pending", payload |-> None, exc |-> ""]
Returned(payload) == [kind |-> "returned", payload |-> payload, exc |-> ""]
Raised(msg) == [kind |-> "raised", payload |-> None, exc |-> msg]

Init ==
    /\ apiKey \in BOOLEAN
    /\ results = <<>>
    /\ cache = <<>>
    /\ runs = 0
    /\ faults = 0
    /\ pc = "idle"
    /\ base_filename = ""
    /\ agent = [c \in AgentClasses |-> NoAgent]
    /\ specialist_outputs = <<>>
    /\ final_mdt_report = ""
    /\ patient_summary = ""
    /\ steps = << <<>>, <<>> >>
    /\ ret = NoReturn
    /\ response = "none"
    /\ derived_calls = 0
    /\ written = {}
    /\ medical_report = NoReport
    /\ steps_text = ""

(***************************************************************************)
(* upload_file (POST) up to the call of run_multi_agent_analysis, and      *)
(* run_multi_agent_analysis up to the submission of the three tasks.       *)
(***************************************************************************)
\* StartRun without the test of line 195: the tasks are submitted whatever
\* load_medical_report gave
StartRunNoAbort(d, file) ==
    /\ pc = "idle"
    /\ runs < MaxRuns
    /\ runs' = runs + 1
    /\ base_filename' = d
    /\ specialist_outputs' = <<>>
    /\ final_mdt_report' = ""
    /\ patient_summary' = ""
    /\ steps' = << <<>>, <<>> >>
    /\ derived_calls' = 0
    /\ written' = {}
    /\ response' = "none"
    /\ steps_text' = ""
    /\ medical_report' = load_medical_report(file)
    /\ IF FALSE
       THEN /\ pc' = "returned"
            /\ ret' = Returned(None)
            /\ agent' = [c \in AgentClasses |-> NoAgent]
       ELSE /\ pc' = "fanout"
            /\ ret' = NoReturn
            /\ agent' = [c \in AgentClasses |->
                            IF c \in SpecialistClasses
                            THEN [NoAgent EXCEPT !.pc = "submitted"]
                            ELSE NoAgent]
    /\ UNCHANGED <<apiKey, results, cache, faults>>

\* the request for document d, whose file is `file`, from its start
BeginRun(d, file) ==
    /\ pc = "idle"
    /\ runs' = runs + 1
    /\ base_filename' = d
    /\ specialist_outputs' = <<>>
    /\ final_mdt_report' = ""
    /\ patient_summary' = ""
    /\ steps' = << <<>>, <<>> >>
    /\ derived_calls' = 0
    /\ written' = {}
    /\ response' = "none"
    /\ steps_text' = ""
    /\ medical_report' = load_medical_report(file)
    /\ IF ~medical_report'.loaded \/ medical_report'.text = ""
       THEN \* load_medical_report gave None or "": return None
            /\ pc' = "returned"
            /\ ret' = Returned(None)
            /\ agent' = [c \in AgentClasses |-> NoAgent]
       ELSE /\ pc' = "fanout"
            /\ ret' = NoReturn
            /\ agent' = [c \in AgentClasses |->
                            IF c \in SpecialistClasses
                            THEN [NoAgent EXCEPT !.pc = "submitted"]
                            ELSE NoAgent]
    /\ UNCHANGED <<apiKey, results, cache, faults>>

\* a request, within the bound on the number of requests
StartRun(d, file) ==
    /\ runs < MaxRuns
    /\ BeginRun(d, file)

(***************************************************************************)
(* run_specialist_agent, in a worker thread of the pool.                   *)
(***************************************************************************)
\* run_specialist_agent after agent.run(): the results area once the
\* artifact of a non-empty report is saved
SpecialistArtifact(fs, base, cls, report_content) ==
    IF report_content # ""
    THEN save_report(fs, SpecialistFile(base, cls), report_content, cls)
    ELSE fs

\* the thread of agent a goes on after a pass of Agent.run: when run has
\* returned in a worker, run_specialist_agent saves the artifact and returns,
\* which completes the future
AfterRun(cls, a) ==
    /\ agent' = [agent EXCEPT ![cls] =
                    IF cls \in SpecialistClasses /\ a.pc = "returned"
                    THEN [a EXCEPT !.pc = "done"]
                    ELSE a]
    /\ IF cls \in SpecialistClasses /\ a.pc = "returned"
       THEN /\ results' = SpecialistArtifact(results, base_filename, cls, a.result)
            /\ written' = IF a.result # ""
                          THEN written \cup
                                {PathJoin(RESULTS_DIR, SpecialistFile(base_filename, cls))}
                          ELSE written
       ELSE UNCHANGED <<results, written>>

\* Agent.run: one generate_content call, ending as o (a retry of a
\* specialist, or any call of the synthesis agent)
AgentCallStep(cls, o) ==
    /\ agent[cls].pc = "call"
    /\ AfterRun(cls, AgentAttempt(agent[cls], o))
    /\ faults' = IF IsBad(o) /\ agent[cls].attempt = 0 THEN faults + 1 ELSE faults
    /\ UNCHANGED << apiKey, medical_report, steps_text, cache, runs, pc, base_filename,
                    specialist_outputs, final_mdt_report, patient_summary,
                    steps, ret, response, derived_calls >>

\* the call of AgentCallStep, its outcome within the bound on faults
AgentCall(cls, o) ==
    /\ o \in Outcomes({AgentText(cls, runs)}, agent[cls].attempt > 0)
    /\ AgentCallStep(cls, o)

\* run_specialist_agent from its start: agent_class(medical_report), where
\* an exception ends the task, then agent.run() up to the end of its first
\* generate_content call, ending as o
WorkerBeginStep(cls, o) ==
    /\ pc = "fanout"
    /\ cls \in SpecialistClasses
    /\ agent[cls].pc = "submitted"
    /\ LET a == AgentConstruct(agent[cls])
       IN  IF a.pc = "raised"
           THEN /\ agent' = [agent EXCEPT ![cls] = a]
                /\ UNCHANGED <<results, written, faults>>
           ELSE /\ AfterRun(cls, AgentAttempt(a, o))
                /\ faults' = IF IsBad(o) THEN faults + 1 ELSE faults
    /\ UNCHANGED << apiKey, medical_report, steps_text, cache, runs, pc, base_filename,
                    specialist_outputs, final_mdt_report, patient_summary,
                    steps, ret, response, derived_calls >>

\* the task of WorkerBeginStep, its outcome within the bound on faults
WorkerBegin(cls, o) ==
    /\ o \in Outcomes({AgentText(cls, runs)}, FALSE)
    /\ WorkerBeginStep(cls, o)

\* Agent.run of any of the four agents: the retry delay is over
AgentWake(cls) ==
    /\ agent[cls].pc = "sleep"
    /\ AfterRun(cls, AgentContinue(agent[cls]))
    /\ UNCHANGED << apiKey, medical_report, steps_text, cache, runs, faults, pc, base_filename,
                    specialist_outputs, final_mdt_report, patient_summary,
                    steps, ret, response, derived_calls >>

(***************************************************************************)
(* run_multi_agent_analysis, in the thread of the request.                 *)
(***************************************************************************)
\* Collect taking a future that has not completed
CollectEarly(cls) ==
    /\ pc = "fanout"
    /\ cls \in SpecialistClasses
    /\ LET agent_name == AgentName[cls]
           value == IF agent[cls].pc # "raised"
                    THEN agent[cls].result
                    ELSE "Error generating " \o agent_name \o " report: "
                            \o agent[cls].result
       IN  /\ agent_name \notin DOMAIN specialist_outputs
           /\ specialist_outputs' =
                [n \in DOMAIN specialist_outputs \cup {agent_name} |->
                    IF n = agent_name THEN value ELSE specialist_outputs[n]]
    /\ UNCHANGED << apiKey, medical_report, steps_text, results, cache, runs, faults, pc, base_filename,
                    agent, final_mdt_report, patient_summary, steps, ret,
                    response, derived_calls, written >>

\* one turn of `for future in as_completed(future_map)`
Collect(cls) ==
    /\ pc = "fanout"
    /\ cls \in SpecialistClasses
    /\ agent[cls].pc \in {"done", "raised"}
    /\ LET agent_name == AgentName[cls]
           value == IF agent[cls].pc = "done"
                    THEN agent[cls].result
                    ELSE "Error generating " \o agent_name \o " report: "
                            \o agent[cls].result
       IN  /\ agent_name \notin DOMAIN specialist_outputs
           /\ specialist_outputs' =
                [n \in DOMAIN specialist_outputs \cup {agent_name} |->
                    IF n = agent_name THEN value ELSE specialist_outputs[n]]
    /\ UNCHANGED << apiKey, medical_report, steps_text, results, cache, runs, faults, pc, base_filename,
                    agent, final_mdt_report, patient_summary, steps, ret,
                    response, derived_calls, written >>

\* AllCollected satisfied by the first future taken
AllCollectedAny ==
    \E cls \in SpecialistClasses : AgentName[cls] \in DOMAIN specialist_outputs

\* every future has been taken from as_completed
AllCollected ==
    \A cls \in SpecialistClasses : AgentName[cls] \in DOMAIN specialist_outputs

\* specialist_outputs.get(name, "")
OutputOf(name) ==
    IF name \in DOMAIN specialist_outputs THEN specialist_outputs[name] ELSE ""

cardiologist_report == OutputOf("cardiologist")
psychologist_report == OutputOf("psychologist")
pulmonologist_report == OutputOf("pulmonologist")

\* the end of the `with` block and the check of the three reports
SpecialistCheck ==
    /\ pc = "fanout"
    /\ AllCollected
    /\ LET cached == load_cache(cache, base_filename)
       IN  IF /\ \/ looks_like_error(cardiologist_report)
                 \/ looks_like_error(psychologist_report)
                 \/ looks_like_error(pulmonologist_report)
              /\ UsableCached(cached)
           THEN /\ pc' = "returned"
                /\ ret' = Returned(cached)
           ELSE /\ pc' = "mdt_init"
                /\ ret' = ret
    /\ UNCHANGED << apiKey, medical_report, steps_text, results, cache, runs, faults, base_filename, agent,
                    specialist_outputs, final_mdt_report, patient_summary,
                    steps, response, derived_calls, written >>

\* MultidisciplinaryTeam(...): an exception leaves run_multi_agent_analysis
MdtConstruct ==
    /\ pc = "mdt_init"
    /\ LET a == AgentConstruct(agent[MDT])
       IN  /\ agent' = [agent EXCEPT ![MDT] = a]
           /\ IF a.pc = "raised"
              THEN /\ pc' = "raised"
                   /\ ret' = Raised(a.result)
              ELSE /\ pc' = "mdt_run"
                   /\ ret' = ret
    /\ UNCHANGED << apiKey, medical_report, steps_text, results, cache, runs, faults, base_filename,
                    specialist_outputs, final_mdt_report, patient_summary,
                    steps, response, derived_calls, written >>

\* SynthesisCheck without the cache fallback: a failed synthesis returns None
SynthesisCheckNoFallback ==
    /\ pc = "mdt_run"
    /\ agent[MDT].pc = "returned"
    /\ final_mdt_report' = agent[MDT].result
    /\ IF final_mdt_report' = "" \/ looks_like_error(final_mdt_report')
       THEN /\ pc' = "returned"
            /\ ret' = Returned(None)
            /\ UNCHANGED <<results, written>>
       ELSE /\ pc' = "summary"
            /\ ret' = ret
            /\ results' = save_report(results, InternalFile(base_filename),
                              final_mdt_report',
                              "Multidisciplinary Team Report (Internal)")
            /\ written' = written
                  \cup {PathJoin(RESULTS_DIR, InternalFile(base_filename))}
    /\ UNCHANGED << apiKey, medical_report, steps_text, cache, runs, faults, base_filename, agent,
                    specialist_outputs, patient_summary, steps, response,
                    derived_calls >>

\* mdt_agent.run() has returned: the check of the synthesis, then the
\* internal artifact
SynthesisCheck ==
    /\ pc = "mdt_run"
    /\ agent[MDT].pc = "returned"
    /\ final_mdt_report' = agent[MDT].result
    /\ IF final_mdt_report' = "" \/ looks_like_error(final_mdt_report')
       THEN LET cached == load_cache(cache, base_filename)
            IN  /\ pc' = "returned"
                /\ ret' = IF UsableCached(cached)
                          THEN Returned(cached)
                          ELSE Returned(None)
                /\ UNCHANGED <<results, written>>
       ELSE /\ pc' = "summary"
            /\ ret' = ret
            /\ results' = save_report(results, InternalFile(base_filename),
                              final_mdt_report',
                              "Multidisciplinary Team Report (Internal)")
            /\ written' = written
                  \cup {PathJoin(RESULTS_DIR, InternalFile(base_filename))}
    /\ UNCHANGED << apiKey, medical_report, steps_text, cache, runs, faults, base_filename, agent,
                    specialist_outputs, patient_summary, steps, response,
                    derived_calls >>

\* generate_patient_summary: the call is not guarded, a fault leaves
\* run_multi_agent_analysis
PatientSummaryCall(o) ==
    /\ pc = "summary"
    /\ o \in Outcomes({SummaryText(runs)}, FALSE)
    /\ derived_calls' = derived_calls + 1
    /\ faults' = IF IsBad(o) THEN faults + 1 ELSE faults
    /\ IF o.kind = "text"
       THEN /\ patient_summary' = Strip(o.val)
            /\ pc' = "steps"
            /\ ret' = ret
       ELSE /\ patient_summary' = patient_summary
            /\ pc' = "raised"
            /\ ret' = Raised(o.val)
    /\ UNCHANGED << apiKey, medical_report, steps_text, results, cache, runs, base_filename, agent,
                    specialist_outputs, final_mdt_report, steps, response,
                    written >>

\* generate_steps_split: the call is not guarded either
StepsCall(o) ==
    /\ pc = "steps"
    /\ o \in Outcomes(StepsTexts, FALSE)
    /\ derived_calls' = derived_calls + 1
    /\ faults' = IF IsBad(o) THEN faults + 1 ELSE faults
    /\ IF o.kind = "text"
       THEN /\ steps_text' = o.val
            /\ steps' = ParseSteps(steps_text')
            /\ pc' = "finish"
            /\ ret' = ret
       ELSE /\ steps_text' = steps_text
            /\ steps' = steps
            /\ pc' = "raised"
            /\ ret' = Raised(o.val)
    /\ UNCHANGED << apiKey, medical_report, results, cache, runs, base_filename, agent,
                    specialist_outputs, final_mdt_report, patient_summary,
                    response, written >>

\* result_payload
ResultPayload(followup_steps) ==
    [ final_report_path    |-> PathJoin(RESULTS_DIR, PatientFile(base_filename)),
      raw_mdt_report_path  |-> PathJoin(RESULTS_DIR, InternalFile(base_filename)),
      raw_mdt_report       |-> final_mdt_report,
      patient_report       |-> patient_summary,
      immediate_steps      |-> steps[1],
      followup_steps       |-> followup_steps,
      cardiologist_report  |-> cardiologist_report,
      pulmonologist_report |-> pulmonologist_report,
      psychologist_report  |-> psychologist_report ]

\* CacheGate left open: every payload is stored
CacheGateOpen(payload) == TRUE

\* whether the payload is stored (line 271)
CacheGate(payload) == ~looks_like_error(payload.patient_report)

\* the backfill of the follow-up steps, the patient artifact, the payload,
\* the cache write with the rebuild that follows it, and the return
Finish ==
    /\ pc = "finish"
    /\ LET followup_steps == BackfillFollowup(steps[2], patient_summary)
           result_payload == ResultPayload(followup_steps)
           results1 == save_report(results, PatientFile(base_filename),
                           patient_summary, "Patient Summary (Frontend)")
       IN  /\ steps' = <<steps[1], followup_steps>>
           /\ results' = results1
           /\ IF CacheGate(result_payload)
              THEN /\ cache' \in rebuild_cache_from_results(results1,
                                    save_cache(cache, base_filename, result_payload))
                   /\ written' = written
                        \cup {PathJoin(RESULTS_DIR, PatientFile(base_filename)),
                              cache_path_for(base_filename)}
                        \cup {cache_path_for(b) : b \in
                                {x \in RebuildBases(results1) :
                                    ~looks_like_error(RebuildData(results1, x).patient_report)}}
              ELSE /\ cache' = cache
                   /\ written' = written
                        \cup {PathJoin(RESULTS_DIR, PatientFile(base_filename))}
           /\ ret' = Returned(result_payload)
    /\ pc' = "returned"
    /\ UNCHANGED << apiKey, medical_report, steps_text, runs, faults, base_filename, agent,
                    specialist_outputs, final_mdt_report, patient_summary,
                    response, derived_calls >>

(***************************************************************************)
(* upload_file after run_multi_agent_analysis (src/app.py).  The value is  *)
(* named final_report_path there but is the payload dict, and              *)
(* os.path.basename of a dict raises TypeError; no handler catches it, or  *)
(* an exception that left run_multi_agent_analysis.                        *)
(***************************************************************************)
Respond ==
    /\ pc \in {"returned", "raised"}
    /\ response' = IF ret.kind = "raised" THEN "fault"
                   ELSE IF ret.payload # None THEN "fault"
                   ELSE "error_page"
    /\ pc' = "idle"
    \* the locals of the invocation are gone
    /\ base_filename' = ""
    /\ agent' = [c \in AgentClasses |-> NoAgent]
    /\ specialist_outputs' = <<>>
    /\ final_mdt_report' = ""
    /\ patient_summary' = ""
    /\ steps' = << <<>>, <<>> >>
    /\ ret' = NoReturn
    /\ derived_calls' = 0
    /\ written' = {}
    /\ medical_report' = NoReport
    /\ steps_text' = ""
    /\ UNCHANGED <<apiKey, results, cache, runs, faults>>

(***************************************************************************)
(* rebuild_cache_from_results called on its own, between two requests.     *)
(***************************************************************************)
Rebuild ==
    /\ pc = "idle"
    /\ cache' \in rebuild_cache_from_results(results, cache)
    /\ UNCHANGED << apiKey, medical_report, steps_text, results, runs, faults, pc, base_filename, agent,
                    specialist_outputs, final_mdt_report, patient_summary,
                    steps, ret, response, derived_calls, written >>

Next ==
    \/ \E d \in Docs, file \in DocFiles : StartRun(d, file)
    \/ \E cls \in SpecialistClasses :
            \E o \in Outcomes({AgentText(cls, runs)}, FALSE) : WorkerBegin(cls, o)
    \/ \E cls \in AgentClasses :
            \E o \in Outcomes({AgentText(cls, runs)}, agent[cls].attempt > 0) :
                AgentCall(cls, o)
    \/ \E cls \in AgentClasses : AgentWake(cls)
    \/ \E cls \in SpecialistClasses : Collect(cls)
    \/ SpecialistCheck
    \/ MdtConstruct
    \/ SynthesisCheck
    \/ \E o \in Outcomes({SummaryText(runs)}, FALSE) : PatientSummaryCall(o)
    \/ \E o \in Outcomes(StepsTexts, FALSE) : StepsCall(o)
    \/ Finish
    \/ Respond
    \/ Rebuild

Spec == Init /\ [][Next]_vars

(***************************************************************************)
(* Properties.                                                             *)
(***************************************************************************)
\* the fan-out of the current invocation is over
FanoutDone ==
    /\ pc \notin {"idle", "fanout"}
    /\ \E cls \in SpecialistClasses : agent[cls].pc # "none"

\* at least one of the three specialist results is error-shaped
AnySpecialistError ==
    \/ looks_like_error(cardiologist_report)
    \/ looks_like_error(psychologist_report)
    \/ looks_like_error(pulmonologist_report)

\* the transient fault: service unavailable
Unavailable == [kind |-> "APIError", val |-> "503 UNAVAILABLE"]

\* Agent.run has returned (in a worker: and the task after it)
Ended(a) == a.pc \in {"returned", "done"}

\* the positions of the service calls in the history of an invocation
CallsIn(log) == {i \in DOMAIN log : log[i] = 0}

\* C1: after the fan-out the result map holds exactly one entry for each of
\* the three roles, whatever each worker did (returned a text, returned an
\* error marker, raised), and each entry is the role's own result: the text
\* its own last call gave, its own error marker, or the text made from its
\* own exception.
C1_ResultMapComplete ==
    FanoutDone =>
        /\ DOMAIN specialist_outputs = {"cardiologist", "psychologist", "pulmonologist"}
        /\ \A cls \in SpecialistClasses :
            LET a == agent[cls]
                entry == specialist_outputs[AgentName[cls]]
            IN  /\ a.pc \in {"done", "raised"}
                /\ a.pc = "done" =>
                      /\ entry = a.result
                      /\ a.outs[Len(a.outs)].kind = "text" =>
                            entry = a.outs[Len(a.outs)].val
                      /\ a.outs[Len(a.outs)].kind # "text" =>
                            entry = "Error: " \o a.outs[Len(a.outs)].val
                /\ a.pc = "raised" =>
                      entry = "Error generating " \o AgentName[cls]
                                \o " report: " \o KeyErrorMsg

\* C1 witness: the cardiologist failed (a fault or an unusable text) and the
\* two other roles completed with the texts the service gave them.
C1_Witness ==
    /\ FanoutDone
    /\ looks_like_error(specialist_outputs["cardiologist"])
    /\ specialist_outputs["psychologist"] = AgentText("Psychologist", runs)
    /\ specialist_outputs["pulmonologist"] = AgentText("Pulmonologist", runs)

\* C2: when the synthesis output is empty or error-shaped and the cache holds
\* a usable entry for the document, the invocation returns exactly that
\* entry, makes no derived-view call, and writes neither the merged-report
\* artifact, the patient-summary artifact nor the cache.
C2_SynthesisFailureReturnsCache ==
    ( /\ pc = "returned"
      /\ agent[MDT].pc = "returned"
      /\ agent[MDT].result = "" \/ looks_like_error(agent[MDT].result)
      /\ UsableCached(load_cache(cache, base_filename)) )
    =>  /\ ret.kind = "returned"
        /\ ret.payload = cache[cache_path_for(base_filename)]
        /\ derived_calls = 0
        /\ written \cap { PathJoin(RESULTS_DIR, InternalFile(base_filename)),
                          PathJoin(RESULTS_DIR, PatientFile(base_filename)),
                          cache_path_for(base_filename) } = {}
        /\ \A path \in written : ~StartsWith(path, CACHE_DIR)

\* C2 witness: a synthesis that failed with a usable entry in the cache.
C2_Witness ==
    /\ pc = "returned"
    /\ agent[MDT].pc = "returned"
    /\ looks_like_error(agent[MDT].result)
    /\ UsableCached(load_cache(cache, base_filename))
    /\ ret.payload # None

\* C3: with an error-shaped specialist result, an invocation that ended
\* either returned the usable cache entry as it is, without a synthesis call
\* and without a derived-view call, or (no usable entry) has made the
\* synthesis call.
C3_SpecialistErrorPolicy ==
    ( /\ pc \in {"returned", "raised"}
      /\ FanoutDone
      /\ AnySpecialistError )
    =>  IF agent[MDT].pc = "none"
        THEN /\ ret.kind = "returned"
             /\ UsableCached(ret.payload)
             /\ ret.payload = load_cache(cache, base_filename)
             /\ derived_calls = 0
        ELSE /\ Ended(agent[MDT])
             /\ Len(agent[MDT].outs) >= 1

\* C4: with the API key set, whatever the model-service calls of a run do,
\* run_multi_agent_analysis does not end by raising.
C4_NoFaultEscapes == apiKey => pc # "raised"

C8_CachePatientReportUsable ==
    \A path \in DOMAIN cache : ~looks_like_error(cache[path].patient_report)

\* C8 witness: an invocation that has written the cache entry of its
\* document.
C8_Witness ==
    /\ pc = "returned"
    /\ cache_path_for(base_filename) \in written
    /\ cache_path_for(base_filename) \in DOMAIN cache

\* C9: no cache entry holds an error-shaped specialist text or an
\* error-shaped merged report.
C9_NoDegradedEntry ==
    \A path \in DOMAIN cache :
        /\ ~looks_like_error(cache[path].cardiologist_report)
        /\ ~looks_like_error(cache[path].psychologist_report)
        /\ ~looks_like_error(cache[path].pulmonologist_report)
        /\ ~looks_like_error(cache[path].raw_mdt_report)

\* C10: the synthesis agent is not constructed, and the request's thread is
\* not past the fan-out, before each of the three specialist tasks has
\* finished, with a result or an exception.
C10_JoinBeforeSynthesis ==
    ( \/ pc \in {"mdt_init", "mdt_run", "summary", "steps", "finish"}
      \/ agent[MDT].pc # "none" )
    =>  \A cls \in SpecialistClasses : agent[cls].pc \in {"done", "raised"}

\* C10 witness: the synthesis call made after a fan-out in which the task
\* listed last finished without a retry and an earlier one went through a
\* retry delay.
C10_Witness ==
    /\ pc = "mdt_run"
    /\ agent[MDT].outs # <<>>
    /\ Len(agent["Pulmonologist"].log) = 1
    /\ \E cls \in {"Cardiologist", "Psychologist"} : Len(agent[cls].log) > 1

\* run_multi_agent_analysis has ended, by a return or by an exception
RunEnded == pc \in {"returned", "raised"}

\* the synthesis stage has returned a text that is neither empty nor
\* error-shaped
SynthesisUsable ==
    /\ agent[MDT].pc = "returned"
    /\ agent[MDT].result # ""
    /\ ~looks_like_error(agent[MDT].result)

\* C11: in a run that has ended, the synthesis stage was invoked at most
\* once, and it was invoked and has returned when the three specialist
\* results are not error-shaped; a derived-view call was made only after a
\* usable synthesis output, and after a usable synthesis output both
\* derived-view calls were made, one of each.
C11_StageCounts ==
    (RunEnded /\ FanoutDone) =>
        /\ agent[MDT].pc \in {"none", "raised", "returned"}
        /\ ~AnySpecialistError => agent[MDT].pc = "returned"
        /\ derived_calls > 0 => SynthesisUsable
        /\ SynthesisUsable => derived_calls = 2

\* the input document was read and is not empty (line 195 passed)
DocumentLoaded == medical_report.loaded /\ medical_report.text # ""

\* C12: a run on a readable, non-empty document with a usable cache entry
\* ends by returning a payload; and a run returns no result only when the
\* document was not loaded, or when the synthesis output is empty or
\* error-shaped and the cache holds no usable entry for the document.
C12_NoResultOnlyOnTotalFailure ==
    RunEnded =>
        /\ ( /\ DocumentLoaded
             /\ UsableCached(load_cache(cache, base_filename)) )
           =>  /\ ret.kind = "returned"
               /\ ret.payload # None
        /\ (ret.kind = "returned" /\ ret.payload = None)
           =>  \/ ~DocumentLoaded
               \/ /\ agent[MDT].pc = "returned"
                  /\ ~SynthesisUsable
                  /\ ~UsableCached(load_cache(cache, base_filename))

\* C13: when the input document cannot be read, run_multi_agent_analysis
\* returns no result at once: the step that loads the document ends the run
\* with no result and leaves the results area and the cache as they were,
\* and until the request is answered no task is submitted, no agent exists,
\* no model-service call is made and nothing is written.
C13_UnreadableAborts ==
    /\ [](  (pc # "idle" /\ ~medical_report.loaded) =>
                /\ pc = "returned"
                /\ ret = Returned(None)
                /\ agent = [c \in AgentClasses |-> NoAgent]
                /\ specialist_outputs = <<>>
                /\ derived_calls = 0
                /\ written = {} )
    /\ [][ (pc = "idle" /\ pc' # "idle" /\ ~medical_report'.loaded) =>
                /\ results' = results
                /\ cache' = cache ]_vars

\* C13 witness: an unreadable upload after a run that filled the results
\* area and the cache.
C13_Witness ==
    /\ pc = "returned"
    /\ ~medical_report.loaded
    /\ results # <<>>
    /\ cache # <<>>

(***************************************************************************)
(* The cache functions called on their own, as a test of save_cache and    *)
(* load_cache calls them: a payload is built from the locals of            *)
(* run_multi_agent_analysis as result_payload is, saved under a key, and   *)
(* loaded back under that key.                                             *)
(***************************************************************************)
\* the keys: file names as run_multi_agent_analysis passes them (upload_file
\* accepts the extensions txt, pdf, doc and docx), and a base name as
\* rebuild_cache_from_results passes it
CacheKeys == {"a.txt", "b.pdf", "c.docx", "a"}

\* texts and lists of texts with the characters json.dump escapes
CacheTexts == {"", "Take rest.", "* Rest\n* \"Drink\" water\\juice\tdaily"}
CacheLists == {<<>>, <<"Rest", "Say \"ah\"\nTwice">>}

\* the locals that make up result_payload are set
CachePrepare(d, summary, list) ==
    /\ pc \in {"idle", "loaded"}
    /\ pc' = "prepared"
    /\ base_filename' = d
    /\ patient_summary' = summary
    /\ final_mdt_report' = "Merged report\n\"final\""
    /\ steps' = <<list, list>>
    /\ specialist_outputs' = [n \in {AgentName[c] : c \in SpecialistClasses}
                                |-> n \o " finding"]
    /\ ret' = NoReturn
    /\ UNCHANGED << apiKey, results, cache, runs, faults, agent, response,
                    derived_calls, written, medical_report, steps_text >>

\* save_cache(base_filename, result_payload)
CacheSave ==
    /\ pc = "prepared"
    /\ pc' = "saved"
    /\ cache' = save_cache(cache, base_filename, ResultPayload(steps[2]))
    /\ UNCHANGED << apiKey, results, runs, faults, base_filename, agent,
                    specialist_outputs, final_mdt_report, patient_summary,
                    steps, ret, response, derived_calls, written,
                    medical_report, steps_text >>

\* load_cache(base_filename)
CacheLoad ==
    /\ pc = "saved"
    /\ pc' = "loaded"
    /\ ret' = Returned(load_cache(cache, base_filename))
    /\ UNCHANGED << apiKey, results, cache, runs, faults, base_filename,
                    agent, specialist_outputs, final_mdt_report,
                    patient_summary, steps, response, derived_calls, written,
                    medical_report, steps_text >>

CacheNext ==
    \/ \E d \in CacheKeys, summary \in CacheTexts, list \in CacheLists :
            CachePrepare(d, summary, list)
    \/ CacheSave
    \/ CacheLoad

CacheSpec == Init /\ [][CacheNext]_vars

ImmediateMarkers == {"Immediate Steps", "**Immediate Steps:**"}
FollowMarkers == {"Follow-up Steps", "Follow up:"}
BulletPrefixes == {"- ", "-", BULLET \o " ", "* "}
ImmediateTriples ==
    { <<"Rest", "Drink water", "Take medicine">>,
      <<"Rest", "Take the pills immediately", "Drink water">>,
      <<"Call your doctor", "Rest", "Avoid stress">> }
FollowTriples ==
    { <<"Recheck", "Blood test", "Review">>,
      <<"Book a follow-up visit", "Blood test", "Review">>,
      <<"See a specialist", "Recheck", "Keep a diary">> }

\* a marker line, three bullet lines, a marker line, three bullet lines
StructuredResponse(m1, imm, m2, fol, b) ==
    m1 \o "\n" \o b \o imm[1] \o "\n" \o b \o imm[2] \o "\n" \o b \o imm[3]
       \o "\n" \o m2 \o "\n" \o b \o fol[1] \o "\n" \o b \o fol[2]
       \o "\n" \o b \o fol[3]

StructuredResponses ==
    { StructuredResponse(m1, imm, m2, fol, b) :
        m1 \in ImmediateMarkers, imm \in ImmediateTriples,
        m2 \in FollowMarkers, fol \in FollowTriples, b \in BulletPrefixes }

\* responses of other shapes: fewer or more bullets than asked for, no
\* marker lines, no text
LooseResponses ==
    StepsTexts \cup BadTexts \cup
    { "- Rest\n- Drink water",
      "Immediate Steps\n- Rest\n- Drink water\n- Take medicine\n- Sleep\nFollow-up Steps\n- A\n- B\n- C\n- D\n- E\n- F\n- G",
      "Follow-up Steps\n- Recheck" }

StepsResponses == StructuredResponses \cup LooseResponses

\* response.text is t
StepsSplit(t) ==
    /\ pc \in {"idle", "parsed"}
    /\ pc' = "parsed"
    /\ steps_text' = t
    /\ steps' = ParseSteps(t)
    /\ UNCHANGED << apiKey, results, cache, runs, faults, base_filename,
                    agent, specialist_outputs, final_mdt_report,
                    patient_summary, ret, response, derived_calls, written,
                    medical_report >>

StepsNext == \E t \in StepsResponses : StepsSplit(t)

StepsSpec == Init /\ [][StepsNext]_vars

\* a line that begins with a bullet character
IsBulletLine(l) ==
    \/ StartsWith(l, "-")
    \/ StartsWith(l, BULLET)
    \/ StartsWith(l, "*")

\* the text of a bullet line, without the bullet character and the blanks
\* around it
BulletText(l) == Strip(SubSeq(l, 2, Len(l)))

\* the lines are: an 'Immediate' marker, three bullets, a 'Follow-up'
\* marker, three bullets
IsStructured(lines) ==
    /\ Len(lines) = 8
    /\ ~IsBulletLine(lines[1]) /\ Contains("immediate", Lower(lines[1]))
    /\ ~IsBulletLine(lines[5]) /\ Contains("follow", Lower(lines[5]))
    /\ \A i \in {2, 3, 4, 6, 7, 8} : IsBulletLine(lines[i])

\* C15: for a response made of an 'Immediate' marker line, three bullet
\* lines, a 'Follow-up' marker line and three bullet lines,
\* generate_steps_split returns the texts of the first three bullets as the
\* immediate list and those of the last three as the follow-up list, in
\* their order, without the bullet prefix.
C15_StructuredSplit ==
    LET lines == SplitLines(steps_text)
    IN  (pc = "parsed" /\ IsStructured(lines)) =>
            /\ steps[1] = <<BulletText(lines[2]), BulletText(lines[3]),
                            BulletText(lines[4])>>
            /\ steps[2] = <<BulletText(lines[6]), BulletText(lines[7]),
                            BulletText(lines[8])>>

FreshPayload ==
    /\ pc = "returned"
    /\ derived_calls = 2
    /\ ret.payload # None

\* a line with something else than blanks in it
IsNonBlank(l) == Strip(l) # ""

\* a line without the bullet characters and blanks at its two ends
WithoutBullets(l) == Strip(StripChars(l, {"-", BULLET, "*", " "}))

\* C17: in a run that returns a fresh payload, when the follow-up bucket
\* generate_steps_split returned is empty, followup_steps of the payload is
\* the 4th to 6th non-blank lines of the patient summary without their
\* bullet characters, hence not empty when the summary has 4 such lines or
\* more; a follow-up bucket that is not empty is in the payload as it is.
C17_FollowupBackfill ==
    FreshPayload =>
        LET bucket == ParseSteps(steps_text)[2]
            lines == SelectSeq(Split(patient_summary), IsNonBlank)
            last == IF Len(lines) < 6 THEN Len(lines) ELSE 6
            followup == ret.payload.followup_steps
        IN  /\ bucket = <<>> =>
                  followup = [i \in 1..(last - 3) |-> WithoutBullets(lines[i + 3])]
            /\ (bucket = <<>> /\ Len(lines) >= 4) => followup # <<>>
            /\ bucket # <<>> => followup = bucket

\* C17 witness: a response with no follow-up bucket and a summary of seven
\* lines; the follow-up steps are its 4th, 5th and 6th lines.
C17_Witness ==
    /\ FreshPayload
    /\ ParseSteps(steps_text)[2] = <<>>
    /\ Len(Split(patient_summary)) = 7
    /\ ret.payload.followup_steps = <<"See your doctor", "Blood test", "Recheck">>

\* C18: after a run that returns a fresh payload whose patient summary is
\* not error-shaped, the cache entry of the document equals the returned
\* payload in every field.
C18_CacheEqualsPayload ==
    (FreshPayload /\ ~looks_like_error(ret.payload.patient_report)) =>
        /\ cache_path_for(base_filename) \in DOMAIN cache
        /\ \A f \in DOMAIN ret.payload :
                load_cache(cache, base_filename)[f] = ret.payload[f]

\* C19: a fault of the patient-summary call or of the action-steps call
\* never leaves run_multi_agent_analysis as an exception: the run does not
\* end by raising once a derived-view call has been made.
C19_DerivedCallsFollowPolicy ==
    derived_calls > 0 => pc # "raised"

\* C20: run_multi_agent_analysis never returns a fresh payload whose
\* patient_report is error-shaped.
C20_NoErrorShapedFreshPayload ==
    FreshPayload => ~looks_like_error(ret.payload.patient_report)

\* C21: when the result of a specialist is an error marker, no artifact of
\* that role is created or overwritten in the run.
C21_NoArtifactForErrorMarker ==
    \A cls \in SpecialistClasses :
        (agent[cls].pc = "done" /\ StartsWith(agent[cls].result, "Error:")) =>
            PathJoin(RESULTS_DIR, SpecialistFile(base_filename, cls)) \notin written

(***************************************************************************)
(* Requests for two documents.  The uploads are readable, a call of the    *)
(* model service gives a usable text or fails with a quota fault, and one  *)
(* request more than MaxRuns is made, so that a request for one document   *)
(* can follow two requests for the other.                                  *)
(***************************************************************************)
TwoDocs == {"a.txt", "b.txt"}

\* the outcomes of a call: the usable texts and the quota fault
PlainOutcomes(good, retrying) ==
    { o \in Outcomes(good, retrying) :
        \/ o.kind = "text" /\ o.val \in good
        \/ o.kind = "APIError" /\ o.val = "429 RESOURCE_EXHAUSTED" }

\* a request for document d, a readable text file
TwoDocStart(d) ==
    /\ runs < MaxRuns + 1
    /\ BeginRun(d, [readable |-> TRUE, text |-> "Chest pain and shortness of breath."])

TwoDocNext ==
    \/ \E d \in TwoDocs : TwoDocStart(d)
    \/ \E cls \in SpecialistClasses :
            \E o \in PlainOutcomes({AgentText(cls, runs)}, FALSE) : WorkerBegin(cls, o)
    \/ \E o \in PlainOutcomes({AgentText(MDT, runs)}, FALSE) : AgentCall(MDT, o)
    \/ \E cls \in SpecialistClasses : Collect(cls)
    \/ SpecialistCheck
    \/ MdtConstruct
    \/ SynthesisCheck
    \/ \E o \in PlainOutcomes({SummaryText(runs)}, FALSE) : PatientSummaryCall(o)
    \/ \E o \in PlainOutcomes(StepsTexts, FALSE) : StepsCall(o)
    \/ Finish
    \/ Respond

TwoDocSpec == Init /\ [][TwoDocNext]_vars

\* C22: no step of a run for one document changes the cache entry of the
\* other document: the entry is not created, not removed and keeps every
\* field, whatever the run returns.
C22_OtherEntriesUnchanged ==
    [][ pc # "idle" =>
            \A d \in TwoDocs \ {base_filename} :
                LET path == cache_path_for(d)
                IN  /\ (path \in DOMAIN cache') = (path \in DOMAIN cache)
                    /\ path \in DOMAIN cache => cache'[path] = cache[path] ]_vars

\* the text fields of a cache entry
TextFields ==
    { "cardiologist_report", "psychologist_report", "pulmonologist_report",
      "raw_mdt_report", "patient_report" }

\* the requests whose model-service answers are found in a text (every
\* answer names the request it was given in)
RunsIn(text) ==
    { n \in 1..(MaxRuns + 1) :
        \/ Contains(" assessment " \o Digit(n), text)
        \/ Contains("Diagnosis " \o Digit(n), text) }

\* C23: all text fields of a cache entry come from one and the same run:
\* there is a run such that no field holds an answer of another run.
C23_CoherentEntries ==
    \A path \in DOMAIN cache :
        \E n \in 1..(MaxRuns + 1) :
            \A f \in TextFields : RunsIn(cache[path][f]) \subseteq {n}

(***************************************************************************)
(* Retries.  Requests for a readable document in which every call of the   *)
(* four agents can meet the transient fault again and again, so that every *)
(* agent can use all its attempts in one invocation.  The fairness stated  *)
(* is what the claim of termination assumes: a thread that can take a step *)
(* takes it (the pool runs a submitted task, a call of the service returns *)
(* or fails, time.sleep returns, the request thread runs its next          *)
(* statement).                                                             *)
(***************************************************************************)
RetryOutcomes(good) ==
    {[kind |-> "text", val |-> t] : t \in good}
        \cup {Unavailable}

\* the number of requests followed
RetryRuns == 1

RetryStart(d) ==
    /\ runs < RetryRuns
    /\ BeginRun(d, [readable |-> TRUE, text |-> "Chest pain and shortness of breath."])

RetryNext ==
    \/ \E d \in Docs : RetryStart(d)
    \/ \E cls \in SpecialistClasses :
            \E o \in RetryOutcomes({AgentText(cls, runs)}) : WorkerBeginStep(cls, o)
    \/ \E cls \in AgentClasses :
            \E o \in RetryOutcomes({AgentText(cls, runs)}) : AgentCallStep(cls, o)
    \/ \E cls \in AgentClasses : AgentWake(cls)
    \/ \E cls \in SpecialistClasses : Collect(cls)
    \/ SpecialistCheck
    \/ MdtConstruct
    \/ SynthesisCheck
    \/ \E o \in Outcomes({SummaryText(runs)}, FALSE) : PatientSummaryCall(o)
    \/ \E o \in Outcomes(StepsTexts, FALSE) : StepsCall(o)
    \/ Finish
    \/ Respond

\* the threads of the four agents: a submitted task starts, a call of the
\* service ends, a retry delay ends
AgentThreadStep ==
    \/ \E cls \in SpecialistClasses :
            \E o \in RetryOutcomes({AgentText(cls, runs)}) : WorkerBeginStep(cls, o)
    \/ \E cls \in AgentClasses :
            \E o \in RetryOutcomes({AgentText(cls, runs)}) : AgentCallStep(cls, o)
    \/ \E cls \in AgentClasses : AgentWake(cls)

\* the request thread waiting for nothing: a completed future to take, or a
\* statement of run_multi_agent_analysis that nothing holds back (the
\* specialist check once the three futures are taken, the constructor of
\* the synthesis agent, the synthesis check once its run() has returned,
\* the two derived-view calls, the end of the function)
RequestCanStep ==
    \/ pc = "fanout" /\ AllCollected
    \/ pc = "mdt_run" /\ agent[MDT].pc = "returned"
    \/ pc \in {"mdt_init", "summary", "steps", "finish"}

\* the request thread goes on to another position of the function
RequestStep ==
    /\ RequestCanStep
    /\ pc' \in {"mdt_init", "mdt_run", "summary", "steps", "finish", "returned", "raised"}
    /\ pc' # pc

RetrySpec ==
    /\ Init /\ [][RetryNext]_vars
    /\ WF_vars(AgentThreadStep)
    /\ WF_vars(\E cls \in SpecialistClasses : Collect(cls))
    /\ WF_pc(RequestStep)

\* an invocation of run_multi_agent_analysis is in progress
Running == pc \notin {"idle", "returned", "raised"}

\* the generate_content calls and the retry delays of agent cls so far
CallsOf(cls) == Cardinality(CallsIn(agent[cls].log))
DelaysOf(cls) == Len(agent[cls].log) - CallsOf(cls)

\* the model-service calls and the retry delays of the invocation so far
ServiceCalls ==
    CallsOf("Cardiologist") + CallsOf("Psychologist") + CallsOf("Pulmonologist")
        + CallsOf(MDT) + derived_calls
RetryDelays ==
    DelaysOf("Cardiologist") + DelaysOf("Psychologist") + DelaysOf("Pulmonologist")
        + DelaysOf(MDT)

\* C24: every invocation of run_multi_agent_analysis ends (returns or
\* raises), and at no moment has it made more than 14 model-service calls
\* (at most 3 for each specialist and for the synthesis, one for the
\* patient summary and one for the action steps) or more than 8 retry
\* delays (at most 2 for each agent).
C24_TerminatesWithinBudget ==
    /\ [] ( /\ \A cls \in AgentClasses : CallsOf(cls) <= 3 /\ DelaysOf(cls) <= 2
            /\ derived_calls <= 2
            /\ ServiceCalls <= 14
            /\ RetryDelays <= 8 )
    /\ (Running ~> RunEnded)

\* C24 witness: an invocation ended after all 14 calls and all 8 delays:
\* each of the four agents met the transient fault twice and succeeded at
\* its third attempt, and both derived-view calls were made.
C24_Witness ==
    /\ RunEnded
    /\ ServiceCalls = 14
    /\ RetryDelays = 8

\* the extensions cache_path_for removes, and base names holding none of them
KnownExtensions == {".txt", ".pdf", ".doc", ".docx"}
BaseNames == {"a", "b", "c"}

\* C25: once save_cache has stored a payload for the document named b + e,
\* b a base name and e a known extension, the key cache_path_for derives is
\* exactly b: the payload is the file b.json of the cache directory.
C25_KeyIsBaseName ==
    pc = "saved" =>
        \A b \in BaseNames, e \in KnownExtensions :
            base_filename = b \o e =>
                /\ cache_path_for(base_filename) = PathJoin(CACHE_DIR, b \o ".json")
                /\ PathJoin(CACHE_DIR, b \o ".json") \in DOMAIN cache

====
